---- MODULE Spec2Model ----
(***************************************************************************)
(* Direct chunk writer examples (direct_chunk_writer.c and                 *)
(* direct_chunk_mt_fill.c): a single writer that, once per cycle, extends  *)
(* a one-dimensional chunked dataset by one chunk and writes that chunk    *)
(* through the direct chunk write path.                                    *)
(*                                                                         *)
(* The two programs differ in direct_write only: the "writer" variant      *)
(* deflates the chunk itself (the dataset declares the deflate filter),    *)
(* the "mt_fill" variant hands the raw buffer over (the dataset declares   *)
(* no filter).  The variable `variant` says which program runs.            *)
(*                                                                         *)
(* The storage library behind the H5D calls is not part of the             *)
(* repository; the store operations (H5Dset_extent, H5Dwrite_chunk, the    *)
(* reader's lookup/decode, the published snapshot) are modelled from the   *)
(* storage contract of the specification and may fail on I/O at any call.  *)
(***************************************************************************)
EXTENDS Integers, Sequences, FiniteSets, TLC

VARIABLES
    variant,    \* which program runs: "writer" or "mt_fill"
    pc,         \* position of main()
    stop,       \* volatile sig_atomic_t stop
    n_chunks,   \* uint64_t n_chunks of main()
    dset,       \* dataset metadata held by the store (dims = logical length)
    index,      \* chunk index of the store: offset -> entry
    pub,        \* what a fresh reader of the file sees (last flushed snapshot)
    written,    \* history: offset -> encoded payload and mask of the successful direct_write
    issued,     \* history of main(): offsets for which a store write was issued
    cycle_ops,  \* history: store calls that succeeded in the current cycle, in order
    stop_pc,    \* history: where main() was when the signal first set stop
    last_dw,    \* history: the last direct_write call (inputs, outcome)
    last_ext,   \* history: the last extend_dataset call (size, outcome)
    cycle_start,\* history: length and chunk index when the current cycle began
    handles     \* state of every library handle of setup() and main()

vars ==
    <<variant, pc, stop, n_chunks, dset, index, pub, written, issued, cycle_ops, stop_pc,
      last_dw, last_ext, cycle_start, handles>>

(***************************************************************************)
(* Bounds of the model                                                     *)
(***************************************************************************)
MaxChunks == 3

MaxApiLen == 21

\* the width of int in bits: 32 in the builds of the program, scaled down
\* here so that chunk numbers above INT_MAX are within reach of the checker
IntBits == 4

\* the number of chunks written in the session with chunk numbers around
\* INT_MAX
MaxBigWrites == 2

(***************************************************************************)
(* Program constants                                                       *)
(***************************************************************************)
CHUNK_SIZE == 10

FILL_VALUE == -1

SizeofInt == 4

\* limits.h: the largest int, 2^31 - 1 for 32 bits
INT_MAX == 2^(IntBits - 1) - 1

SUCCEED == 0

FAIL == -1

Variants == {"writer", "mt_fill"}

(***************************************************************************)
(* direct_write: buffer sizes and the synthetic value                      *)
(***************************************************************************)
\* buf_size = CHUNK_SIZE * sizeof(int)
buf_size == CHUNK_SIZE * SizeofInt

\* (size_t)ceil(n * 1.001)
Ceil1001(n) == (n * 1001 + 999) \div 1000

\* buf_out_size = (size_t)ceil(buf_size * 1.001) + 12
buf_out_size == Ceil1001(buf_size) + 12

\* (int)x for a non-negative x: the value modulo 2^IntBits, two's complement
ToInt(x) ==
    LET m == x % (2^IntBits) IN
    IF m > INT_MAX THEN m - 2^IntBits ELSE m

\* the mutation of ChunkValue: the offset itself is taken as the value
ChunkValueNoDiv(offset) == ToInt(offset)

\* value = (int)(offset / CHUNK_SIZE)
ChunkValue(offset) == ToInt(offset \div CHUNK_SIZE)

\* for (i = 0; i < CHUNK_SIZE; i++) buf[i] = value
FillBuf(value) == [i \in 1..CHUNK_SIZE |-> value]

(***************************************************************************)
(* Byte buffers.  A buffer is a content (the bytes that carry data)        *)
(* followed by `pad` zero bytes.  A content is either the raw image of an  *)
(* int array (codec "none") or a zlib stream that inflates to it (codec    *)
(* "deflate"); `len` is its byte length and `whole` tells whether all of   *)
(* its bytes are there.                                                    *)
(***************************************************************************)
RawContent(elems) ==
    [codec |-> "none", elems |-> elems, len |-> Len(elems) * SizeofInt, whole |-> TRUE]

\* what compress2 leaves in the first destLen bytes of the destination
DeflateContent(elems, destLen) ==
    [codec |-> "deflate", elems |-> elems, len |-> destLen, whole |-> TRUE]

\* the first n bytes of buffer b (n not above its length, content.len + pad)
Prefix(b, n) ==
    IF n >= b.content.len
    THEN [content |-> b.content, pad |-> n - b.content.len]
    ELSE [content |-> [b.content EXCEPT !.len = n, !.whole = FALSE], pad |-> 0]

\* outcomes of compress2 on the chunk: the return code and, on Z_OK, the
\* number of bytes produced (never more than the destination holds)
ZRets == {"Z_OK", "Z_BUF_ERROR", "Z_MEM_ERROR", "Z_DATA_ERROR"}

ZDestLens == {buf_size - 1, buf_size, buf_size + 1, buf_out_size}

\* what the environment decides during one direct_write call: whether the
\* allocations succeed, what compress2 returns and whether the store's I/O
\* succeeds.  A choice that comes after the first failure is never looked
\* at and is kept at one value.
DwEnvs ==
    {e \in [malloc_ok : BOOLEAN, calloc_ok : BOOLEAN, z_ret : ZRets,
             z_destLen : ZDestLens, io_ok : BOOLEAN] :
        /\ ~e.malloc_ok => e.calloc_ok
        /\ ~(e.malloc_ok /\ e.calloc_ok) => e.z_ret = "Z_OK"
        /\ ~(e.malloc_ok /\ e.calloc_ok /\ e.z_ret = "Z_OK") =>
               (e.z_destLen = buf_size /\ e.io_ok)}

(***************************************************************************)
(* The store                                                               *)
(***************************************************************************)
NoDataset ==
    [exists |-> FALSE, dims |-> 0, chunk_size |-> 0, fill_value |-> 0, deflate |-> FALSE,
     etype |-> "none"]

EmptyIndex == [o \in {} |-> 0]

\* raw_length of a chunk: chunk_size x element width
RawLength(ds) == ds.chunk_size * SizeofInt

\* H5Dset_extent(did, {size}): append-only growth
H5Dset_extent(ds, size, io_ok) ==
    IF ~ds.exists \/ size < ds.dims \/ ~io_ok
    THEN [ret |-> FAIL, ds |-> ds]
    ELSE [ret |-> SUCCEED, ds |-> [ds EXCEPT !.dims = size]]

\* chunk index upsert: insert or replace the entry keyed by offset
Upsert(idx, offset, entry) ==
    [o \in DOMAIN idx \cup {offset} |-> IF o = offset THEN entry ELSE idx[o]]

\* H5Dwrite_chunk(did, dxpl, filter_mask, &offset, data_size, buf): the first
\* data_size bytes of buf become the chunk at offset
H5Dwrite_chunk(ds, idx, filter_mask, offset, data_size, buf, io_ok) ==
    IF \/ ~ds.exists
       \/ offset % ds.chunk_size # 0
       \/ offset + ds.chunk_size > ds.dims
       \/ ~io_ok
    THEN [ret |-> FAIL, index |-> idx]
    ELSE [ret |-> SUCCEED,
          index |-> Upsert(idx, offset,
                           [bytes |-> Prefix(buf, data_size), size |-> data_size,
                            mask |-> filter_mask])]

\* lookup(offset): the stored payload and mask, or "absent"
Lookup(idx, offset) ==
    IF offset \in DOMAIN idx
    THEN [bytes |-> idx[offset].bytes, mask |-> idx[offset].mask]
    ELSE "absent"

\* decoding of a stored chunk by the dataset's pipeline: with the deflate
\* filter declared and not masked out, the stream is inflated (bytes after
\* the end of the stream are not looked at); otherwise the bytes are the
\* raw image and must have the raw length
Decode(ds, entry) ==
    LET c == entry.bytes.content IN
    IF ds.deflate /\ entry.mask = 0
    THEN IF c.codec = "deflate" /\ c.whole THEN c.elems ELSE "error"
    ELSE IF c.codec = "none" /\ c.whole /\ entry.size = RawLength(ds) THEN c.elems ELSE "error"

\* read of the chunk at offset: decoded if present, fill-valued if absent
ReadChunk(ds, idx, offset) ==
    IF offset \in DOMAIN idx
    THEN Decode(ds, idx[offset])
    ELSE [i \in 1..ds.chunk_size |-> ds.fill_value]

(***************************************************************************)
(* setup(): the dataset as created                                         *)
(***************************************************************************)
\* the mutation of SetupDataset: the fill value is left at the default 0
SetupDatasetNoFill(v) ==
    [exists |-> TRUE, dims |-> 0, chunk_size |-> CHUNK_SIZE, fill_value |-> 0,
     deflate |-> (v = "writer"), etype |-> "H5T_NATIVE_INT"]

\* the mutation of SetupDataset: current_dims is one chunk instead of 0
SetupDatasetOneChunk(v) ==
    [exists |-> TRUE, dims |-> CHUNK_SIZE, chunk_size |-> CHUNK_SIZE,
     fill_value |-> FILL_VALUE, deflate |-> (v = "writer"), etype |-> "H5T_NATIVE_INT"]

\* current_dims = {0}, chunk_dims = {CHUNK_SIZE}, fill value FILL_VALUE,
\* H5T_NATIVE_INT elements, deflate in direct_chunk_writer.c only
SetupDataset(v) ==
    [exists |-> TRUE, dims |-> 0, chunk_size |-> CHUNK_SIZE, fill_value |-> FILL_VALUE,
     deflate |-> (v = "writer"), etype |-> "H5T_NATIVE_INT"]

\* the library calls of setup() in program order: what each does to which
\* handle (H5Pset_deflate is in direct_chunk_writer.c only)
SetupSteps(v) ==
    <<[op |-> "open",  h |-> "setup.fapl_id"],   \* H5Pcreate(H5P_FILE_ACCESS)
      [op |-> "set",   h |-> "setup.fapl_id"],   \* H5Pset_libver_bounds
      [op |-> "open",  h |-> "setup.fid"],       \* H5Fcreate
      [op |-> "open",  h |-> "setup.sid"],       \* H5Screate_simple
      [op |-> "open",  h |-> "setup.dcpl_id"],   \* H5Pcreate(H5P_DATASET_CREATE)
      [op |-> "set",   h |-> "setup.dcpl_id"]>>  \* H5Pset_chunk
    \o (IF v = "writer"
        THEN <<[op |-> "set", h |-> "setup.dcpl_id"]>>  \* H5Pset_deflate
        ELSE <<>>)
    \o
    <<[op |-> "set",   h |-> "setup.dcpl_id"],   \* H5Pset_fill_value
      [op |-> "open",  h |-> "setup.did"],       \* H5Dcreate2
      [op |-> "close", h |-> "setup.fapl_id"],   \* Shutdown
      [op |-> "close", h |-> "setup.fid"],
      [op |-> "close", h |-> "setup.sid"],
      [op |-> "close", h |-> "setup.dcpl_id"],
      [op |-> "close", h |-> "setup.did"]>>

\* the handles after the first k steps of setup() have succeeded
SetupAfter(v, hs, k) ==
    LET steps == SetupSteps(v) IN
    [h \in DOMAIN hs |->
        IF \E i \in 1..k : steps[i] = [op |-> "close", h |-> h] THEN "closed"
        ELSE IF \E i \in 1..k : steps[i] = [op |-> "open", h |-> h] THEN "open"
        ELSE hs[h]]

\* badness of setup(): every handle of setup() is closed with errors
\* suppressed; closing an id that is invalid or already closed does nothing,
\* a close that failed before is tried again
SetupBadness(hs, retry_ok) ==
    [h \in DOMAIN hs |->
        IF hs[h] = "open" THEN "closed"
        ELSE IF hs[h] = "close_failed" /\ retry_ok THEN "closed"
        ELSE hs[h]]

\* setup() with its call number fail_at failing (0: none fails)
setup(v, hs, fail_at, retry_ok) ==
    LET steps == SetupSteps(v) IN
    IF fail_at = 0
    THEN [ret |-> SUCCEED, handles |-> SetupAfter(v, hs, Len(steps))]
    ELSE LET before == SetupAfter(v, hs, fail_at - 1)
             failed == IF steps[fail_at].op = "close"
                       THEN [before EXCEPT ![steps[fail_at].h] = "close_failed"]
                       ELSE before
         IN  [ret |-> FAIL, handles |-> SetupBadness(failed, retry_ok)]

(***************************************************************************)
(* extend_dataset(did, size)                                               *)
(***************************************************************************)
\* the mutation of extend_dataset: the return value of H5Dset_extent is not
\* looked at
extend_dataset_unchecked(ds, size, io_ok) ==
    [ret |-> SUCCEED, ds |-> H5Dset_extent(ds, size, io_ok).ds]

\* the mutation of extend_dataset: size is taken as the number of elements
\* to add
extend_dataset_by(ds, size, io_ok) ==
    LET r == H5Dset_extent(ds, ds.dims + size, io_ok) IN
    IF r.ret < 0 THEN [ret |-> FAIL, ds |-> ds] ELSE [ret |-> SUCCEED, ds |-> r.ds]

extend_dataset(ds, size, io_ok) ==
    LET r == H5Dset_extent(ds, size, io_ok) IN
    IF r.ret < 0 THEN [ret |-> FAIL, ds |-> ds] ELSE [ret |-> SUCCEED, ds |-> r.ds]

(***************************************************************************)
(* direct_write(did, offset).  The result tells the return value, the      *)
(* chunk index afterwards, the store writes issued (offset and size        *)
(* handed over), the encoded payload and mask of the chunk, the byte       *)
(* length of the encoding produced (0 when the call fails before one is)   *)
(* and what the call did with its heap buffers buf and buf_out, in order:  *)
(* allocated, read or written, freed.                                      *)
(***************************************************************************)
MemEv(op, b) == [op |-> op, buf |-> b]

\* the mutation of FreeBufs: only the first buffer is freed
FreeBufsFirstOnly(allocated) ==
    IF allocated = <<>> THEN <<>> ELSE <<MemEv("free", allocated[1])>>

\* free(buf); free(buf_out); for the buffers that are not NULL, free(NULL)
\* does nothing
FreeBufs(allocated) == [i \in 1..Len(allocated) |-> MemEv("free", allocated[i])]

\* malloc and the fill loop
MemFill == <<MemEv("alloc", "buf"), MemEv("use", "buf")>>

\* calloc and compress2, which reads buf and writes buf_out
MemDeflate == <<MemEv("alloc", "buf_out"), MemEv("use", "buf"), MemEv("use", "buf_out")>>

\* H5Dwrite_chunk reads the buffer handed over
MemStore(b) == <<MemEv("use", b)>>

\* badness: free(buf); free(buf_out); return FAIL
DwFail(idx, stores, enc_len, mem, allocated) ==
    [ret |-> FAIL, index |-> idx, stores |-> stores, payload |-> "none", mask |-> 0,
     enc_len |-> enc_len, mem |-> mem \o FreeBufs(allocated)]

\* the mutation of TooLarge: the length is compared with the size of the
\* destination buffer
TooLargeOutBuf(z_destLen) == z_destLen > buf_out_size

\* if (z_destLen > buf_size) goto badness
TooLarge(z_destLen) == z_destLen > buf_size

\* the mutation of StoreOffset: the offset is rounded down to its chunk
StoreOffsetAligned(offset) == (offset \div CHUNK_SIZE) * CHUNK_SIZE

\* the offset handed to H5Dwrite_chunk: &offset, as received
StoreOffset(offset) == offset

\* direct_chunk_writer.c
direct_write_writer(ds, idx, offset, env) ==
    LET filter_mask == 0
        value       == ChunkValue(offset)
        buf         == FillBuf(value)
        z_destLen   == env.z_destLen
        \* calloc'd destination after compress2
        buf_out     == [content |-> DeflateContent(buf, z_destLen),
                        pad |-> buf_out_size - z_destLen]
        w           == H5Dwrite_chunk(ds, idx, filter_mask, StoreOffset(offset),
                                      buf_out_size, buf_out, env.io_ok)
        call        == [offset |-> StoreOffset(offset), size |-> buf_out_size]
        both        == <<"buf", "buf_out">>
    IN  IF value > INT_MAX THEN DwFail(idx, <<>>, 0, <<>>, <<>>)
        ELSE IF ~env.malloc_ok THEN DwFail(idx, <<>>, 0, <<>>, <<>>)
        ELSE IF ~env.calloc_ok THEN DwFail(idx, <<>>, 0, MemFill, <<"buf">>)
        ELSE IF env.z_ret # "Z_OK" THEN DwFail(idx, <<>>, 0, MemFill \o MemDeflate, both)
        ELSE IF TooLarge(z_destLen)
             THEN DwFail(idx, <<>>, z_destLen, MemFill \o MemDeflate, both)
        ELSE IF w.ret < 0
             THEN DwFail(idx, <<call>>, z_destLen,
                         MemFill \o MemDeflate \o MemStore("buf_out"), both)
        ELSE [ret |-> SUCCEED, index |-> w.index, stores |-> <<call>>,
              payload |-> Prefix(buf_out, z_destLen), mask |-> filter_mask,
              enc_len |-> z_destLen,
              mem |-> MemFill \o MemDeflate \o MemStore("buf_out") \o FreeBufs(both)]

\* direct_chunk_mt_fill.c
direct_write_mt_fill(ds, idx, offset, env) ==
    LET filter_mask == 0
        value       == ChunkValue(offset)
        buf         == [content |-> RawContent(FillBuf(value)), pad |-> 0]
        w           == H5Dwrite_chunk(ds, idx, filter_mask, StoreOffset(offset),
                                      buf_size, buf, env.io_ok)
        call        == [offset |-> StoreOffset(offset), size |-> buf_size]
    IN  IF value > INT_MAX THEN DwFail(idx, <<>>, 0, <<>>, <<>>)
        ELSE IF ~env.malloc_ok THEN DwFail(idx, <<>>, 0, <<>>, <<>>)
        ELSE IF w.ret < 0
             THEN DwFail(idx, <<call>>, buf_size, MemFill \o MemStore("buf"), <<"buf">>)
        ELSE [ret |-> SUCCEED, index |-> w.index, stores |-> <<call>>,
              payload |-> buf, mask |-> filter_mask, enc_len |-> buf_size,
              mem |-> MemFill \o MemStore("buf") \o FreeBufs(<<"buf">>)]

\* the mutation of direct_write: the return value of H5Dwrite_chunk is not
\* looked at, a call that got as far as the store write reports success
direct_write_unchecked(v, ds, idx, offset, env) ==
    LET r == IF v = "writer"
             THEN direct_write_writer(ds, idx, offset, env)
             ELSE direct_write_mt_fill(ds, idx, offset, env)
    IN  IF r.stores # <<>> THEN [r EXCEPT !.ret = SUCCEED] ELSE r

direct_write(v, ds, idx, offset, env) ==
    IF v = "writer"
    THEN direct_write_writer(ds, idx, offset, env)
    ELSE direct_write_mt_fill(ds, idx, offset, env)

(***************************************************************************)
(* main()                                                                  *)
(***************************************************************************)
\* the mutation of write_offset: every cycle writes the first chunk
write_offset_first(n) == 0 * n

\* hsize_t write_offset = n_chunks * CHUNK_SIZE
write_offset(n) == n * CHUNK_SIZE

\* the mutation of new_size: the dataset is extended to the write offset only
new_size_short(n) == n * CHUNK_SIZE

\* hsize_t new_size = (n_chunks + 1) * CHUNK_SIZE
new_size(n) == (n + 1) * CHUNK_SIZE

NoCall ==
    [called |-> FALSE, offset |-> 0, enc_len |-> 0, ret |-> 0, stores |-> <<>>, mem |-> <<>>]

NoExt == [called |-> FALSE, size |-> 0, before |-> 0, ret |-> 0]

NoCycle == [dims |-> 0, index |-> EmptyIndex]

\* the handles of setup() (fapl_id, fid, sid, dcpl_id, did) and of main()
\* (fid, did).  A handle is "none" (H5I_INVALID_HID, never opened), "open",
\* "closed", or "close_failed" (its close was called and failed).
HandleNames == {"setup.fapl_id", "setup.fid", "setup.sid", "setup.dcpl_id", "setup.did",
                "main.fid", "main.did"}

NoHandles == [h \in HandleNames |-> "none"]

Snapshot == [dims |-> dset.dims, index |-> index]

Init ==
    /\ variant \in Variants
    /\ pc = "main"
    /\ stop = FALSE
    /\ n_chunks = 0
    /\ dset = NoDataset
    /\ index = EmptyIndex
    /\ pub = [dims |-> 0, index |-> EmptyIndex]
    /\ written = EmptyIndex
    /\ issued = {}
    /\ cycle_ops = <<>>
    /\ stop_pc = "none"
    /\ last_dw = NoCall
    /\ last_ext = NoExt
    /\ cycle_start = NoCycle
    /\ handles = NoHandles

\* ctrl_c_handler: SIGINT may arrive at any point of main()
Signal ==
    /\ pc \notin {"done", "exited"}
    /\ stop' = TRUE
    /\ stop_pc' = IF stop THEN stop_pc ELSE pc
    /\ UNCHANGED <<variant, pc, n_chunks, dset, index, pub, written, issued, cycle_ops, last_dw,
                 last_ext, cycle_start, handles>>

\* if (setup() < 0) goto badness: the file and the dataset are created and closed
Setup ==
    /\ pc = "main"
    /\ \E fail_at \in 0..Len(SetupSteps(variant)), retry_ok \in BOOLEAN :
        LET r == setup(variant, handles, fail_at, retry_ok) IN
        /\ handles' = r.handles
        /\ IF r.ret < 0
           THEN /\ pc' = "bad"
                /\ UNCHANGED <<dset, pub>>
           ELSE /\ dset' = SetupDataset(variant)
                /\ pub' = [dims |-> 0, index |-> EmptyIndex]
                /\ pc' = "open"
    /\ UNCHANGED <<variant, stop, n_chunks, index, written, issued, cycle_ops, stop_pc, last_dw,
                 last_ext, cycle_start>>

\* H5Fopen(SWMR_WRITE), H5Dopen2, n_chunks = 0
Open ==
    /\ pc = "open"
    /\ \/ \* H5Fopen fails
          /\ pc' = "bad"
          /\ UNCHANGED handles
       \/ \* H5Dopen2 fails
          /\ pc' = "bad"
          /\ handles' = [handles EXCEPT !["main.fid"] = "open"]
       \/ /\ pc' = "loop"
          /\ handles' = [handles EXCEPT !["main.fid"] = "open", !["main.did"] = "open"]
    /\ n_chunks' = 0
    /\ UNCHANGED <<variant, stop, dset, index, pub, written, issued, cycle_ops, stop_pc, last_dw,
                 last_ext, cycle_start>>

\* the mutation of LoopHead: the stop request is taken as a fault
LoopHeadStopIsFault ==
    /\ pc = "loop"
    /\ \/ /\ stop
          /\ pc' = "bad"
          /\ UNCHANGED <<cycle_ops, cycle_start>>
       \/ /\ ~stop
          /\ n_chunks < MaxChunks
          /\ pc' = "extend"
          /\ cycle_ops' = <<>>
          /\ cycle_start' = [dims |-> dset.dims, index |-> index]
    /\ UNCHANGED <<variant, stop, n_chunks, dset, index, pub, written, issued, stop_pc, last_dw,
                 last_ext, handles>>

\* while (!stop)
LoopHead ==
    /\ pc = "loop"
    /\ \/ /\ stop
          /\ pc' = "close_file"
          /\ UNCHANGED <<cycle_ops, cycle_start>>
       \/ /\ ~stop
          /\ n_chunks < MaxChunks
          /\ pc' = "extend"
          /\ cycle_ops' = <<>>
          /\ cycle_start' = [dims |-> dset.dims, index |-> index]
    /\ UNCHANGED <<variant, stop, n_chunks, dset, index, pub, written, issued, stop_pc, last_dw,
                 last_ext, handles>>

\* if (extend_dataset(did, new_size) < 0) goto badness
Extend ==
    /\ pc = "extend"
    /\ \E io_ok \in BOOLEAN :
        LET r == extend_dataset(dset, new_size(n_chunks), io_ok) IN
        /\ dset' = r.ds
        /\ last_ext' = [called |-> TRUE, size |-> new_size(n_chunks), before |-> dset.dims,
                        ret |-> r.ret]
        /\ IF r.ret < 0
           THEN pc' = "bad" /\ UNCHANGED cycle_ops
           ELSE pc' = "write" /\ cycle_ops' = Append(cycle_ops, "extend")
    /\ UNCHANGED <<variant, stop, n_chunks, index, pub, written, issued, stop_pc, last_dw,
                 cycle_start, handles>>

\* if (direct_write(did, write_offset) < 0) goto badness
DirectWrite ==
    /\ pc = "write"
    /\ \E env \in DwEnvs :
        LET off == write_offset(n_chunks)
            r   == direct_write(variant, dset, index, off, env) IN
        /\ index' = r.index
        /\ issued' = issued \cup {r.stores[i].offset : i \in 1..Len(r.stores)}
        /\ last_dw' = [called |-> TRUE, offset |-> off, enc_len |-> r.enc_len, ret |-> r.ret,
                       stores |-> r.stores, mem |-> r.mem]
        /\ IF r.ret < 0
           THEN /\ pc' = "bad"
                /\ UNCHANGED <<written, cycle_ops>>
           ELSE /\ pc' = "incr"
                /\ written' = Upsert(written, off, [payload |-> r.payload, mask |-> r.mask])
                /\ cycle_ops' = Append(cycle_ops, "write")
    /\ UNCHANGED <<variant, stop, n_chunks, dset, pub, stop_pc,
                 last_ext, cycle_start, handles>>

\* n_chunks += 1
Incr ==
    /\ pc = "incr"
    /\ n_chunks' = n_chunks + 1
    /\ pc' = "sleep"
    /\ UNCHANGED <<variant, stop, dset, index, pub, written, issued, cycle_ops, stop_pc, last_dw,
                 last_ext, cycle_start, handles>>

\* sleep(1): returns after a second or when the signal interrupts it
Sleep ==
    /\ pc = "sleep"
    /\ pc' = "loop"
    /\ UNCHANGED <<variant, stop, n_chunks, dset, index, pub, written, issued, cycle_ops, stop_pc, last_dw,
                 last_ext, cycle_start, handles>>

\* if (H5Fclose(fid) < 0) goto badness: the file is flushed
CloseFile ==
    /\ pc = "close_file"
    /\ \E ok \in BOOLEAN :
        IF ok
        THEN /\ pc' = "close_dset"
             /\ pub' = Snapshot
             /\ handles' = [handles EXCEPT !["main.fid"] = "closed"]
        ELSE /\ pc' = "bad"
             /\ handles' = [handles EXCEPT !["main.fid"] = "close_failed"]
             /\ UNCHANGED pub
    /\ UNCHANGED <<variant, stop, n_chunks, dset, index, written, issued, cycle_ops, stop_pc, last_dw,
                 last_ext, cycle_start>>

\* if (H5Dclose(did) < 0) goto badness; printf("DONE"); return EXIT_SUCCESS
CloseDset ==
    /\ pc = "close_dset"
    /\ \E ok \in BOOLEAN :
        IF ok
        THEN /\ pc' = "done"
             /\ handles' = [handles EXCEPT !["main.did"] = "closed"]
        ELSE /\ pc' = "bad"
             /\ handles' = [handles EXCEPT !["main.did"] = "close_failed"]
    /\ UNCHANGED <<variant, stop, n_chunks, dset, index, pub, written, issued, cycle_ops, stop_pc, last_dw,
                 last_ext, cycle_start>>

\* badness: printf("BADNESS"); return EXIT_FAILURE.  Nothing is closed by
\* main(); whether the library flushes the open file at process exit is
\* left open.
Badness ==
    /\ pc = "bad"
    /\ pc' = "exited"
    /\ pub' \in {pub, Snapshot}
    /\ UNCHANGED <<variant, stop, n_chunks, dset, index, written, issued, cycle_ops, stop_pc, last_dw,
                 last_ext, cycle_start, handles>>

Next ==
    \/ Signal
    \/ Setup
    \/ Open
    \/ LoopHead
    \/ Extend
    \/ DirectWrite
    \/ Incr
    \/ Sleep
    \/ CloseFile
    \/ CloseDset
    \/ Badness

Spec == Init /\ [][Next]_vars

(***************************************************************************)
(* main() when no call fails: setup, the opens, extend_dataset,            *)
(* direct_write and the closes all succeed.  The process keeps running:    *)
(* every call returns and sleep(1) ends, so a step of main() that can be   *)
(* taken is taken (weak fairness); the signal may or may not come.         *)
(***************************************************************************)
SetupOk == Setup /\ dset'.exists

OpenOk == Open /\ handles'["main.did"] = "open"

ExtendOk == Extend /\ last_ext'.ret = SUCCEED

DirectWriteOk == DirectWrite /\ last_dw'.ret = SUCCEED

CloseFileOk == CloseFile /\ handles'["main.fid"] = "closed"

CloseDsetOk == CloseDset /\ handles'["main.did"] = "closed"

MainNoFail ==
    \/ SetupOk
    \/ OpenOk
    \/ LoopHead
    \/ ExtendOk
    \/ DirectWriteOk
    \/ Incr
    \/ Sleep
    \/ CloseFileOk
    \/ CloseDsetOk

NextNoFail ==
    \/ Signal
    \/ MainNoFail

SpecNoFail == Init /\ [][NextNoFail]_vars /\ WF_vars(MainNoFail)

(***************************************************************************)
(* The operations called directly: extend_dataset and direct_write on an   *)
(* open dataset with any size and any offset up to MaxApiLen.              *)
(***************************************************************************)
InitAPI ==
    /\ variant \in Variants
    /\ pc = "api"
    /\ stop = FALSE
    /\ n_chunks = 0
    /\ dset = SetupDataset(variant)
    /\ index = EmptyIndex
    /\ pub = [dims |-> 0, index |-> EmptyIndex]
    /\ written = EmptyIndex
    /\ issued = {}
    /\ cycle_ops = <<>>
    /\ stop_pc = "none"
    /\ last_dw = NoCall
    /\ last_ext = NoExt
    /\ cycle_start = NoCycle
    /\ handles = [NoHandles EXCEPT !["main.fid"] = "open", !["main.did"] = "open"]

\* extend_dataset(did, size)
ApiExtend ==
    /\ pc = "api"
    /\ \E size \in 0..MaxApiLen, io_ok \in BOOLEAN :
        LET r == extend_dataset(dset, size, io_ok) IN
        /\ dset' = r.ds
        /\ last_ext' = [called |-> TRUE, size |-> size, before |-> dset.dims, ret |-> r.ret]
    /\ last_dw' = NoCall
    /\ UNCHANGED <<variant, pc, stop, n_chunks, index, pub, written, issued, cycle_ops, stop_pc,
                 cycle_start, handles>>

\* direct_write(did, offset)
ApiDirectWrite ==
    /\ pc = "api"
    /\ \E off \in 0..MaxApiLen, env \in DwEnvs :
        LET r == direct_write(variant, dset, index, off, env) IN
        /\ index' = r.index
        /\ last_dw' = [called |-> TRUE, offset |-> off, enc_len |-> r.enc_len, ret |-> r.ret,
                       stores |-> r.stores, mem |-> r.mem]
        /\ written' = IF r.ret < 0 THEN written
                      ELSE Upsert(written, off, [payload |-> r.payload, mask |-> r.mask])
    /\ last_ext' = NoExt
    /\ UNCHANGED <<variant, pc, stop, n_chunks, dset, pub, issued, cycle_ops, stop_pc,
                 cycle_start, handles>>

NextAPI ==
    \/ ApiExtend
    \/ ApiDirectWrite

SpecAPI == InitAPI /\ [][NextAPI]_vars

\* a step that is one call of extend_dataset
(***************************************************************************)
(* extend_dataset and direct_write on a dataset that is long enough to     *)
(* hold chunks with numbers above INT_MAX: the dataset as setup() creates  *)
(* it, one extension to BigLen and writes at the chunks around INT_MAX     *)
(* and around 2^IntBits.                                                   *)
(***************************************************************************)
BigChunks == {0, INT_MAX, INT_MAX + 1, 2^IntBits - 1, 2^IntBits, 2^IntBits + 1}

BigLen == (2^IntBits + 2) * CHUNK_SIZE

InitBig ==
    /\ variant \in Variants
    /\ pc = "big"
    /\ stop = FALSE
    /\ n_chunks = 0
    /\ dset = SetupDataset(variant)
    /\ index = EmptyIndex
    /\ pub = [dims |-> 0, index |-> EmptyIndex]
    /\ written = EmptyIndex
    /\ issued = {}
    /\ cycle_ops = <<>>
    /\ stop_pc = "none"
    /\ last_dw = NoCall
    /\ last_ext = NoExt
    /\ cycle_start = NoCycle
    /\ handles = [NoHandles EXCEPT !["main.fid"] = "open", !["main.did"] = "open"]

\* extend_dataset(did, BigLen)
BigExtend ==
    /\ pc = "big"
    /\ dset.dims < BigLen
    /\ \E io_ok \in BOOLEAN :
        LET r == extend_dataset(dset, BigLen, io_ok) IN
        /\ dset' = r.ds
        /\ last_ext' = [called |-> TRUE, size |-> BigLen, before |-> dset.dims, ret |-> r.ret]
    /\ last_dw' = NoCall
    /\ UNCHANGED <<variant, pc, stop, n_chunks, index, pub, written, issued, cycle_ops, stop_pc,
                 cycle_start, handles>>

\* direct_write(did, q * CHUNK_SIZE)
BigDirectWrite ==
    /\ pc = "big"
    /\ Cardinality(DOMAIN index) < MaxBigWrites
    /\ \E q \in BigChunks, env \in DwEnvs :
        LET off == q * CHUNK_SIZE
            r   == direct_write(variant, dset, index, off, env) IN
        /\ index' = r.index
        /\ last_dw' = [called |-> TRUE, offset |-> off, enc_len |-> r.enc_len, ret |-> r.ret,
                       stores |-> r.stores, mem |-> r.mem]
        /\ written' = IF r.ret < 0 THEN written
                      ELSE Upsert(written, off, [payload |-> r.payload, mask |-> r.mask])
    /\ last_ext' = NoExt
    /\ UNCHANGED <<variant, pc, stop, n_chunks, dset, pub, issued, cycle_ops, stop_pc,
                 cycle_start, handles>>

NextBig ==
    \/ BigExtend
    \/ BigDirectWrite

SpecBig == InitBig /\ [][NextBig]_vars

ExtStep == (pc = "extend" /\ pc' # "extend") \/ (pc = "api" /\ last_ext'.called)

\* a step that is one call of direct_write
DwStep == (pc = "write" /\ pc' # "write") \/ (pc = "api" /\ last_dw'.called)

\* the offsets of the chunks of a dataset of length dims
ChunkOffsets(dims) == {o \in 0..dims : o % CHUNK_SIZE = 0 /\ o < dims}

(***************************************************************************)
(* Claims                                                                  *)
(***************************************************************************)

\* C1: round trip. Once a successful direct_write(o) with encoded payload P
\* (in direct_chunk_writer.c the z_destLen bytes compress2 produced) and
\* mask M has been flushed, a fresh reader's lookup(o) returns exactly P,
\* same bytes and same byte length, and exactly M.
C1_RoundTrip ==
    \A o \in DOMAIN written :
        o \in DOMAIN pub.index =>
            Lookup(pub.index, o) = [bytes |-> written[o].payload, mask |-> written[o].mask]

\* C2: every chunk recorded in the chunk index has a recorded encoded byte
\* length not above raw_length, and no store write issued by direct_write
\* hands over a size above raw_length.
C2_EncodedLenBounded ==
    /\ \A o \in DOMAIN index : index[o].size <= RawLength(dset)
    /\ \A i \in 1..Len(last_dw.stores) : last_dw.stores[i].size <= RawLength(dset)

\* C3: a direct_write whose encoding is longer than raw_length fails before
\* any store write is issued and leaves the chunk index as it was.
C3_TooLargeRejected ==
    [][(DwStep /\ last_dw'.enc_len > RawLength(dset)) =>
          (last_dw'.ret = FAIL /\ last_dw'.stores = <<>> /\ index' = index)]_vars

C3_Witness ==
    /\ last_dw.called
    /\ last_dw.enc_len > RawLength(dset)
    /\ last_dw.ret = FAIL
    /\ pc = "bad"

C6_CycleOrder ==
    pc = "sleep" => cycle_ops = <<"extend", "write", "publish">>

\* C7: when the loop exits because of stop, whatever the moment the signal
\* came, the length is n_chunks * CHUNK_SIZE and the chunks 0..n_chunks-1,
\* and no others, are there and whole.
C7_StopBetweenCycles ==
    pc = "close_file" =>
        /\ stop
        /\ dset.dims = n_chunks * CHUNK_SIZE
        /\ DOMAIN index = ChunkOffsets(dset.dims)
        /\ \A o \in DOMAIN index :
              /\ index[o].bytes.content.whole
              /\ ReadChunk(dset, index, o) = [i \in 1..CHUNK_SIZE |-> o \div CHUNK_SIZE]

C7_Witness ==
    /\ pc = "close_file"
    /\ stop_pc = "write"
    /\ n_chunks >= 2

\* C8: every chunk-aligned offset below the length at which no write has
\* been issued reads back as CHUNK_SIZE elements equal to the fill value -1.
C8_UnwrittenReadsFill ==
    dset.exists =>
        \A o \in ChunkOffsets(dset.dims) :
            o \notin issued =>
                ReadChunk(dset, index, o) = [i \in 1..CHUNK_SIZE |-> -1]

C8_Witness ==
    /\ pc = "write"
    /\ n_chunks >= 1
    /\ write_offset(n_chunks) \in ChunkOffsets(dset.dims)
    /\ write_offset(n_chunks) \notin issued

\* C9: every direct write of the loop is called with a chunk-aligned offset
\* whose chunk lies within the length, and so is every store write it issues.
C9_WritePrecondition ==
    /\ pc = "write" =>
          /\ write_offset(n_chunks) % CHUNK_SIZE = 0
          /\ write_offset(n_chunks) + CHUNK_SIZE <= dset.dims
    /\ \A i \in 1..Len(last_dw.stores) :
          /\ last_dw.stores[i].offset % CHUNK_SIZE = 0
          /\ last_dw.stores[i].offset + CHUNK_SIZE <= dset.dims

C9_Witness ==
    /\ last_dw.called
    /\ last_dw.stores # <<>>
    /\ last_dw.offset = CHUNK_SIZE
    /\ pc = "incr"

\* C10: a direct write at an offset that is not a multiple of the chunk
\* size, or whose chunk reaches beyond the length, fails and leaves the
\* chunk index and the length as they were.
C10_BadOffsetRejected ==
    [][(DwStep /\ (\/ last_dw'.offset % CHUNK_SIZE # 0
                   \/ last_dw'.offset + CHUNK_SIZE > dset.dims)) =>
          (last_dw'.ret = FAIL /\ index' = index /\ dset' = dset)]_vars

C10_Witness ==
    /\ pc = "api"
    /\ last_dw.called
    /\ last_dw.offset % CHUNK_SIZE # 0
    /\ last_dw.offset + CHUNK_SIZE <= dset.dims
    /\ last_dw.stores # <<>>
    /\ last_dw.ret = FAIL
    /\ index # EmptyIndex

\* what a reader can tell of a dataset: its length, its chunk index and the
\* read-back of every chunk
Observable(ds, idx) ==
    [len |-> ds.dims, index |-> idx,
     reads |-> [o \in ChunkOffsets(ds.dims) |-> ReadChunk(ds, idx, o)]]

\* C11: extend_dataset with a size below the current length fails and
\* leaves the length (and the rest of the dataset) as it was.
C11_ShrinkRejected ==
    [][(ExtStep /\ last_ext'.size < dset.dims) =>
          (last_ext'.ret = FAIL /\ dset' = dset /\ index' = index)]_vars

C11_Witness ==
    /\ pc = "api"
    /\ last_ext.called
    /\ last_ext.size < last_ext.before
    /\ last_ext.ret = FAIL
    /\ dset.dims = last_ext.before
    /\ index # EmptyIndex

\* C12: extend is idempotent: from every reachable dataset state and for
\* every length L not below the current one, extending to L twice gives the
\* same length, chunk index and read-back of every chunk as extending once.
C12_ExtendIdempotent ==
    \A L \in dset.dims..(MaxApiLen + CHUNK_SIZE) :
        LET once  == extend_dataset(dset, L, TRUE)
            twice == extend_dataset(once.ds, L, TRUE)
        IN  /\ once.ret = SUCCEED
            /\ twice.ret = SUCCEED
            /\ Observable(twice.ds, index) = Observable(once.ds, index)

C12_Witness ==
    /\ pc = "api"
    /\ last_ext.called
    /\ last_ext.ret = SUCCEED
    /\ last_ext.before = last_ext.size
    /\ dset.dims = last_ext.size
    /\ dset.dims >= 2 * CHUNK_SIZE
    /\ index # EmptyIndex

\* C13: in a writer session the length starts at 0 and never decreases,
\* and chunk size, fill value and element type stay as given at creation.
C13_LengthMonotone ==
    [][/\ (~dset.exists /\ dset'.exists) =>
             /\ dset'.dims = 0
             /\ dset'.chunk_size = CHUNK_SIZE
             /\ dset'.fill_value = FILL_VALUE
             /\ dset'.etype = "H5T_NATIVE_INT"
       /\ dset.exists =>
             /\ dset'.exists
             /\ dset'.dims >= dset.dims
             /\ dset'.chunk_size = dset.chunk_size
             /\ dset'.fill_value = dset.fill_value
             /\ dset'.etype = dset.etype
             /\ dset'.deflate = dset.deflate]_vars

C13_Witness ==
    /\ pc = "write"
    /\ dset.dims = 3 * CHUNK_SIZE
    /\ dset.chunk_size = CHUNK_SIZE
    /\ dset.fill_value = FILL_VALUE

\* C15: the stop signal is a clean-stop request.  When no call fails, once
\* stop is set no cycle is started at the loop head, main() never takes the
\* failure exit, and it ends with the file and the dataset closed and
\* success (DONE).
C15_CleanStop ==
    /\ [][(stop /\ pc = "loop") => pc' # "extend"]_vars
    /\ [](pc \notin {"bad", "exited"})
    /\ stop ~> (/\ pc = "done"
                /\ handles["main.fid"] = "closed"
                /\ handles["main.did"] = "closed")

C15_Witness ==
    /\ pc = "done"
    /\ stop
    /\ stop_pc = "extend"
    /\ n_chunks >= 2
    /\ handles["main.fid"] = "closed"
    /\ handles["main.did"] = "closed"

\* C16 (as stated): when extend_dataset or direct_write fails in a cycle,
\* main() goes to the failure exit with n_chunks not incremented and with
\* the length and the chunk index exactly as they were when the cycle began.
C16_NoPartialCommit ==
    [][(pc \in {"extend", "write"} /\ pc' = "bad") =>
          (/\ n_chunks' = n_chunks
           /\ dset'.dims = cycle_start.dims
           /\ index' = cycle_start.index)]_vars

\* C16 (amended): when extend_dataset or direct_write fails in a cycle,
\* main() goes to the failure exit with n_chunks not incremented and the
\* chunk index as it was when the cycle began; the length is as it was when
\* extend_dataset failed and stays extended by one chunk when direct_write
\* failed; after that nothing is extended or written any more.
C16_FailStopsCycle ==
    /\ [][(pc \in {"extend", "write"} /\ pc' = "bad") =>
             (/\ n_chunks' = n_chunks
              /\ index' = cycle_start.index
              /\ (pc = "extend" => dset'.dims = cycle_start.dims)
              /\ (pc = "write" => dset'.dims = cycle_start.dims + CHUNK_SIZE))]_vars
    /\ [][(pc = "bad" \/ pc = "exited") =>
             (/\ pc' \in {"bad", "exited"}
              /\ dset' = dset
              /\ index' = index
              /\ n_chunks' = n_chunks)]_vars

C16_Witness ==
    /\ pc = "bad"
    /\ last_dw.called
    /\ last_dw.ret = FAIL
    /\ last_dw.offset = write_offset(n_chunks)
    /\ cycle_ops = <<"extend">>
    /\ n_chunks >= 1
    /\ dset.dims = cycle_start.dims + CHUNK_SIZE
    /\ index = cycle_start.index
    /\ ReadChunk(dset, index, write_offset(n_chunks)) = [i \in 1..CHUNK_SIZE |-> FILL_VALUE]

\* C18: once setup() has returned none of its handles (fapl_id, fid, sid,
\* dcpl_id, did) is left open, and once main() has returned, by its normal
\* or by its failure exit, neither its file handle nor its dataset handle is
\* left open.
C18_HandlesReleased ==
    /\ pc # "main" =>
          \A h \in {"setup.fapl_id", "setup.fid", "setup.sid", "setup.dcpl_id", "setup.did"} :
              handles[h] # "open"
    /\ pc \in {"done", "exited"} =>
          \A h \in {"main.fid", "main.did"} : handles[h] # "open"

\* C19: in every state of main() the written chunk offsets are the first
\* n_chunks or the first n_chunks + 1 multiples of CHUNK_SIZE, the length is
\* between n_chunks * CHUNK_SIZE and (n_chunks + 1) * CHUNK_SIZE, and no
\* store write is issued for an offset a store write was issued for before.
C19_GapFreePrefix ==
    /\ [](/\ n_chunks * CHUNK_SIZE <= dset.dims
          /\ dset.dims <= (n_chunks + 1) * CHUNK_SIZE
          /\ \/ DOMAIN index = ChunkOffsets(n_chunks * CHUNK_SIZE)
             \/ DOMAIN index = ChunkOffsets((n_chunks + 1) * CHUNK_SIZE))
    /\ [][DwStep =>
             \A i \in 1..Len(last_dw'.stores) :
                 /\ last_dw'.stores[i].offset \notin issued
                 /\ last_dw'.stores[i].offset \notin DOMAIN index]_vars

C19_Witness ==
    /\ pc = "incr"
    /\ n_chunks = 2
    /\ dset.dims = 3 * CHUNK_SIZE
    /\ DOMAIN index = {0, CHUNK_SIZE, 2 * CHUNK_SIZE}
    /\ last_dw.ret = SUCCEED
    /\ last_dw.offset = 2 * CHUNK_SIZE

\* C20: after every direct_write call, however it returned, each of buf and
\* buf_out was allocated at most once, was freed exactly once if it was
\* allocated and not at all otherwise, and was read or written only between
\* its allocation and its free.
C20_BuffersFreedOnce ==
    last_dw.called =>
        LET tr == last_dw.mem
            At(op, b) == {i \in 1..Len(tr) : tr[i] = MemEv(op, b)}
        IN  \A b \in {"buf", "buf_out"} :
                /\ Cardinality(At("alloc", b)) <= 1
                /\ Cardinality(At("free", b)) = Cardinality(At("alloc", b))
                /\ \A a \in At("alloc", b), f \in At("free", b) : a < f
                /\ \A u \in At("use", b) :
                       /\ \E a \in At("alloc", b) : a < u
                       /\ \A f \in At("free", b) : u < f

C20_Witness ==
    /\ variant = "writer"
    /\ last_dw.called
    /\ last_dw.ret = FAIL
    /\ last_dw.stores # <<>>
    /\ Len(last_dw.mem) = 8
    /\ last_dw.mem[7] = MemEv("free", "buf")
    /\ last_dw.mem[8] = MemEv("free", "buf_out")

\* C17: a direct_write at an offset whose chunk number is above INT_MAX
\* returns FAIL with no store write issued, and every chunk in the index
\* reads back as CHUNK_SIZE copies of its chunk number.
C17_IntMaxRejected ==
    /\ (last_dw.called /\ last_dw.offset \div CHUNK_SIZE > INT_MAX) =>
           (last_dw.ret = FAIL /\ last_dw.stores = <<>>)
    /\ \A o \in DOMAIN index :
           ReadChunk(dset, index, o) = [i \in 1..CHUNK_SIZE |-> o \div CHUNK_SIZE]

====
